---------------------------- MODULE Spec2Model ----------------------------
(***************************************************************************)
(* A model of the Kraken k-mer database core (krakendb.hpp / krakendb.cpp):*)
(* the bit-packed k-mer primitives, the minimizer index built by           *)
(* make_index, and the hybrid binary/linear kmer_query.                    *)
(*                                                                         *)
(* A uint64_t is modelled as a function from digit positions 0..31 to      *)
(* base-4 digits (two bits each, position 0 the least significant), so     *)
(* that all 64 bits are kept.  Every shift in the code is by an even       *)
(* number of bits when key_bits = 2k, so a shift by b bits is a shift by   *)
(* b \div 2 digits.                                                        *)
(***************************************************************************)
EXTENDS Integers, Sequences, FiniteSets, TLC

\* ------------------------------------------------------------------------
\* Bounds of the model
\* ------------------------------------------------------------------------
\* length of the head pattern from which input k-mer strings are built
PatLen == 1

\* the number of pairs of a sparse database
MaxKeyCt == 2

\* the largest minimizer length indexed
MaxNt == 2

\* how far beyond the last offset KrakenDBIndex::at is called
AtSlack == 2

\* the number of pairs of the arrays searched window by window
SearchLen == 17

\* the number of threads
NThreads == 2

\* the iterations a thread takes at a time; stands for the 400 of
\* schedule(dynamic,400)
Chunk == 1

\* the largest k-mer length of which bin_key is called with every k-mer
SmallK == 3

\* ------------------------------------------------------------------------
\* 64-bit unsigned words
\* ------------------------------------------------------------------------
\* number of 2-bit digits of a uint64_t
WordDigits == 32

Pos == 0..(WordDigits - 1)

Word == [Pos -> 0..3]

\* a word given digit by digit, as a value (each digit evaluated once)
MkWord(digits) == digits @@ <<>>

Zero == MkWord([i \in Pos |-> 0])

One == MkWord([i \in Pos |-> IF i = 0 THEN 1 ELSE 0])

\* (uint64_t)-1 and ~0 converted to uint64_t
AllOnes == MkWord([i \in Pos |-> 3])

\* bitwise operators on one 2-bit digit
DigitAnd(a, b) == ((a % 2) * (b % 2)) + 2 * ((a \div 2) * (b \div 2))

DigitOr(a, b) == (IF (a % 2) + (b % 2) > 0 THEN 1 ELSE 0)
                 + 2 * (IF (a \div 2) + (b \div 2) > 0 THEN 1 ELSE 0)

DigitXor(a, b) == (((a % 2) + (b % 2)) % 2) + 2 * (((a \div 2) + (b \div 2)) % 2)

\* the same as tables
AndTable == [a \in 0..3 |-> [b \in 0..3 |-> DigitAnd(a, b)]]

OrTable == [a \in 0..3 |-> [b \in 0..3 |-> DigitOr(a, b)]]

XorTable == [a \in 0..3 |-> [b \in 0..3 |-> DigitXor(a, b)]]

\* w >> bits and w << bits on a uint64_t, for an even bit count below 64
Shr(w, bits) == MkWord([i \in Pos |-> IF i + (bits \div 2) < WordDigits
                               THEN w[i + (bits \div 2)] ELSE 0])

Shl(w, bits) == MkWord([i \in Pos |-> IF i - (bits \div 2) >= 0
                               THEN w[i - (bits \div 2)] ELSE 0])

And(a, b) == MkWord([i \in Pos |-> AndTable[a[i]][b[i]]])

Or(a, b) == MkWord([i \in Pos |-> OrTable[a[i]][b[i]]])

Xor(a, b) == MkWord([i \in Pos |-> XorTable[a[i]][b[i]]])

\* the digits i..31 of a - b, given the borrow into digit i
RECURSIVE SubDigits(_, _, _, _)
SubDigits(a, b, i, borrow) ==
    IF i = WordDigits THEN <<>>
    ELSE <<(a[i] - b[i] - borrow + 4) % 4>>
         \o SubDigits(a, b, i + 1, IF a[i] - b[i] - borrow < 0 THEN 1 ELSE 0)

\* a - b modulo 2^64
Sub(a, b) == LET d == SubDigits(a, b, 0, 0) IN MkWord([i \in Pos |-> d[i + 1]])

\* unsigned a < b, deciding at the highest digit i or below where they differ
RECURSIVE LtFrom(_, _, _)
LtFrom(a, b, i) == IF i < 0 THEN FALSE
                   ELSE IF a[i] # b[i] THEN a[i] < b[i]
                   ELSE LtFrom(a, b, i - 1)

Lt(a, b) == LtFrom(a, b, WordDigits - 1)

Le(a, b) == ~Lt(b, a)

\* the value of the digits i..d-1 of w, as an integer
RECURSIVE LowIntFrom(_, _, _)
LowIntFrom(w, i, d) == IF i >= d THEN 0 ELSE w[i] + 4 * LowIntFrom(w, i + 1, d)

\* a word that fits 30 bits, as an integer
ToInt(w) == LowIntFrom(w, 0, 15)

\* the uint64_t holding a small integer (below 2^30)
FromInt(v) == MkWord([i \in Pos |-> IF i < 15 THEN (v \div (4 ^ i)) % 4 ELSE 0])

\* a repeating mask with runs of `run` digits set, starting at digit 0
SwapMask(run) == MkWord([i \in Pos |-> IF (i \div run) % 2 = 0 THEN 3 ELSE 0])

\* 0x3333333333333333, 0x0F0F0F0F0F0F0F0F, 0x00FF00FF00FF00FF, 0x0000FFFF0000FFFF
Mask3333 == SwapMask(1)

Mask0F0F == SwapMask(2)

Mask00FF == SwapMask(4)

Mask0000FFFF == SwapMask(8)

\* the hexadecimal digits of 0xe37e28c4271b5a2d, most significant first
XorMaskHex == <<14, 3, 7, 14, 2, 8, 12, 4, 2, 7, 1, 11, 5, 10, 2, 13>>

\* XOR mask for minimizer bin keys
INDEX2_XOR_MASK ==
    MkWord([i \in Pos |-> IF i % 2 = 0 THEN XorMaskHex[16 - (i \div 2)] % 4
                          ELSE XorMaskHex[16 - (i \div 2)] \div 4])

\* ------------------------------------------------------------------------
\* k-mer primitives
\* ------------------------------------------------------------------------
\* the five swap stages of reverse_complement: the 2-bit pairs within each
\* nibble, the nibbles within each byte, the bytes within each half-word, the
\* half-words within each word, the two words; together they reverse the order
\* of the 32 bases of the 64-bit value
ReverseBases(kmer) ==
    LET k1 == Or(And(Shr(kmer, 2), Mask3333), Shl(And(kmer, Mask3333), 2))
        k2 == Or(And(Shr(k1, 4), Mask0F0F), Shl(And(k1, Mask0F0F), 4))
        k3 == Or(And(Shr(k2, 8), Mask00FF), Shl(And(k2, Mask00FF), 8))
        k4 == Or(And(Shr(k3, 16), Mask0000FFFF), Shl(And(k3, Mask0000FFFF), 16))
    IN  Or(Shr(k4, 32), Shl(k4, 32))

\* reverse_complement shifting one base too far
reverse_complement_shift(kmer, n) ==
    Shr(Sub(AllOnes, ReverseBases(kmer)), 8 * 8 - (n * 2) + 2)

\* reverse_complement without the complement
reverse_complement_nocomp(kmer, n) ==
    Shr(ReverseBases(kmer), 8 * 8 - (n * 2))

\* the five swap stages, then (((uint64_t) -1) - kmer) >> (8 * 8 - (n * 2))
reverse_complement(kmer, n) ==
    Shr(Sub(AllOnes, ReverseBases(kmer)), 8 * 8 - (n * 2))

\* canonical_representation returning the larger of the two
canonical_representation_max(kmer, n) ==
    LET revcom == reverse_complement(kmer, n)
    IN  IF Lt(kmer, revcom) THEN revcom ELSE kmer

\* canonical_representation returning its argument
canonical_representation_id(kmer, n) == kmer

\* kmer < revcom ? kmer : revcom
canonical_representation(kmer, n) ==
    LET revcom == reverse_complement(kmer, n)
    IN  IF Lt(kmer, revcom) THEN kmer ELSE revcom

\* the temp_bin_key of each iteration i of the loop of bin_key:
\* xor_mask ^ canonical_representation(kmer & mask, nt), where kmer >>= 2 has
\* run i times
TempBinKeys(kmer, nt, mask, xor_mask, iterations) ==
    [i \in 0..(iterations - 1) |->
        Xor(xor_mask, canonical_representation(And(Shr(kmer, 2 * i), mask), nt))] @@ <<>>

\* the loop of bin_key from iteration i on:
\* if (temp_bin_key < min_bin_key) min_bin_key = temp_bin_key
RECURSIVE BinKeyLoop(_, _, _, _)
BinKeyLoop(temp_bin_keys, iterations, i, min_bin_key) ==
    IF i >= iterations THEN min_bin_key
    ELSE IF Lt(temp_bin_keys[i], min_bin_key)
         THEN BinKeyLoop(temp_bin_keys, iterations, i + 1, temp_bin_keys[i])
         ELSE BinKeyLoop(temp_bin_keys, iterations, i + 1, min_bin_key)

\* bin_key(kmer, idx_nt) running its loop once more, over the bits above
\* key_bits
bin_key_nt_long(key_bits, kmer, idx_nt) ==
    LET mask == Sub(Shl(One, idx_nt * 2), One)
        iterations == (key_bits \div 2) - idx_nt + 2
    IN  BinKeyLoop(TempBinKeys(kmer, idx_nt, mask, And(INDEX2_XOR_MASK, mask), iterations),
                   iterations, 0, AllOnes)

\* bin_key(kmer, idx_nt) of a database with the given key_bits: the v2 XOR
\* mask whatever index is bound; mask = (1 << (nt * 2)) - 1, min_bin_key = ~0
bin_key_nt(key_bits, kmer, idx_nt) ==
    LET mask == Sub(Shl(One, idx_nt * 2), One)
        iterations == (key_bits \div 2) - idx_nt + 1
    IN  BinKeyLoop(TempBinKeys(kmer, idx_nt, mask, And(INDEX2_XOR_MASK, mask), iterations),
                   iterations, 0, AllOnes)

\* bin_key stopping one substring early
bin_key_short(key_bits, idx_type, nt, kmer) ==
    LET mask == Sub(Shl(One, nt * 2), One)
        xor_mask == IF idx_type = 1 THEN Zero ELSE INDEX2_XOR_MASK
        iterations == (key_bits \div 2) - nt
    IN  BinKeyLoop(TempBinKeys(kmer, nt, mask, And(xor_mask, mask), iterations),
                   iterations, 0, AllOnes)

\* bin_key with the XOR mask left at its 64 bits
bin_key_unmasked(key_bits, idx_type, nt, kmer) ==
    LET mask == Sub(Shl(One, nt * 2), One)
        xor_mask == IF idx_type = 1 THEN Zero ELSE INDEX2_XOR_MASK
        iterations == (key_bits \div 2) - nt + 1
    IN  BinKeyLoop(TempBinKeys(kmer, nt, mask, xor_mask, iterations),
                   iterations, 0, AllOnes)

\* bin_key taking each substring as it is, not its canonical representation
bin_key_raw(key_bits, idx_type, nt, kmer) ==
    LET mask == Sub(Shl(One, nt * 2), One)
        xor_mask == And(IF idx_type = 1 THEN Zero ELSE INDEX2_XOR_MASK, mask)
        iterations == (key_bits \div 2) - nt + 1
    IN  BinKeyLoop([i \in 0..(iterations - 1) |->
                       Xor(xor_mask, And(Shr(kmer, 2 * i), mask))] @@ <<>>,
                   iterations, 0, AllOnes)

\* bin_key(kmer) of a database with the given key_bits bound to an index of
\* the given type and minimizer length
bin_key(key_bits, idx_type, nt, kmer) ==
    LET mask == Sub(Shl(One, nt * 2), One)
        xor_mask == IF idx_type = 1 THEN Zero ELSE INDEX2_XOR_MASK
        iterations == (key_bits \div 2) - nt + 1
    IN  BinKeyLoop(TempBinKeys(kmer, nt, mask, And(xor_mask, mask), iterations),
                   iterations, 0, AllOnes)

\* ------------------------------------------------------------------------
\* DNA strings and their packed encoding (the test helpers)
\* ------------------------------------------------------------------------
Bases == <<"A", "C", "G", "T">>

\* the switch of string_to_kmer: A=0, C=1, G=2, T=3
BaseCode(c) == CASE c = "A" -> 0 [] c = "C" -> 1 [] c = "G" -> 2 [] c = "T" -> 3

\* for each character: kmer <<= 2; kmer |= code.  For a string of at most 32
\* bases nothing is shifted out: the last character lands in digit 0, the
\* one before it in digit 1, and so on
string_to_kmer(dna_str) ==
    MkWord([i \in Pos |-> IF i < Len(dna_str)
                          THEN BaseCode(dna_str[Len(dna_str) - i]) ELSE 0])

\* length times: result = base(kmer & 3) + result; kmer >>= 2, so the
\* character at position j from the left is the base of digit length - j
kmer_to_string(kmer, length) == [j \in 1..length |-> Bases[kmer[length - j] + 1]]

\* ------------------------------------------------------------------------
\* State
\* ------------------------------------------------------------------------
VARIABLES
    call_op,       \* the primitive called last: "none" before any call
    call_n,        \* the length (n or idx_nt) the primitive is called with
    call_kmer,     \* the k-mer it is called with
    call_ret,      \* what it returned
    proc,          \* "running", or "exited" once errx has ended the process
    file,          \* the header of the mapped database file
    pairs,         \* the pair array of the mapped database file
    db,            \* the KrakenDB object
    idx_file,      \* the index file
    index,         \* the KrakenDBIndex object
    index_ptr,     \* KrakenDB::index_ptr: NULL, or "index" once set_index ran
    shl64,         \* what this build computes for 1ull << 64
    last_bin_key,  \* the caller's state of the stateful kmer_query
    min_pos,
    max_pos,
    q_call,        \* the query called last: "none", "stateless" or "stateful"
    q_kmer,        \* the k-mer it was called with
    q_in,          \* the caller's state the last stateful query was called with
    q_ret,         \* the pair its result points into, NoPair for NULL
    mi_nt,         \* the nt of the make_index call in progress, 0 when none is
    next_i,        \* the first loop iteration not yet handed to a thread
    bin_counts,    \* the vector bin_counts of the make_index call in progress
    thr,           \* each thread's position and private variables in make_index
    qstate,        \* each thread's (last_bin_key, min_pos, max_pos)
    tq,            \* each thread's position and private variables in kmer_query
    kq             \* the position and the local variables of a kmer_query call

callvars == <<call_op, call_n, call_kmer, call_ret>>

dbvars == <<proc, file, pairs, db, idx_file, index, index_ptr, shl64>>

qvars == <<last_bin_key, min_pos, max_pos, q_call, q_kmer, q_in, q_ret>>

mivars == <<mi_nt, next_i, bin_counts, thr>>

cqvars == <<qstate, tq, kq>>

thrvars == <<mivars, cqvars>>

vars == <<callvars, dbvars, qvars, thrvars>>

NULL == "NULL"

\* a NULL result of kmer_query; any other result is the position of the pair
\* whose value it points to
NoPair == -1

\* no file is mapped
NoFile == [magic |-> "", key_bits |-> 0, val_len |-> 0, key_ct |-> 0]

\* no index file is written
NoIndexFile == [magic |-> "", nt |-> 0, offsets |-> <<>>]

\* KrakenDB::KrakenDB(): the basic constructor
KrakenDB_basic ==
    [errx |-> NULL, key_bits |-> 0, val_len |-> 0, key_ct |-> 0, k |-> 0, key_len |-> 0]

\* KrakenDBIndex::KrakenDBIndex()
KrakenDBIndex_basic == [errx |-> NULL, idx_type |-> 1, nt |-> 0, array |-> <<>>]

\* a caller's state before its first query: min_pos > max_pos
NoWindow == [last_bin_key |-> 0, min_pos |-> 1, max_pos |-> 0]

NoCalls == /\ call_op = "none" /\ call_n = 0 /\ call_kmer = Zero /\ call_ret = Zero

NoQueries == /\ last_bin_key = 0 /\ min_pos = 1 /\ max_pos = 0
             /\ q_call = "none" /\ q_kmer = Zero /\ q_ret = NoPair
             /\ q_in = NoWindow

Threads == 1..NThreads

\* no kmer_query call has been made
NoCall ==
    [pc |-> "idle", retry_on_failure |-> FALSE, depth |-> 0, b_key |-> 0,
     min |-> 0, max |-> 0, mid |-> 0, bin |-> NoWindow,
     searches |-> 0, reads |-> 0, visited |-> 0, empty |-> FALSE]

\* no parallel region is running
NoThreads ==
    /\ mi_nt = 0 /\ next_i = 0 /\ bin_counts = <<>>
    /\ thr = [t \in Threads |-> [pc |-> "idle", i |-> 0, hi |-> 0, b_key |-> 0]]
    /\ qstate = [s \in Threads |-> NoWindow]
    /\ tq = [t \in Threads |->
               [pc |-> "idle", kmer |-> Zero, ret |-> NoPair,
                alone |-> [ret |-> NoPair, st |-> NoWindow]]]
    /\ kq = NoCall

NoDatabase == /\ proc = "running" /\ file = NoFile /\ pairs = <<>>
              /\ db = KrakenDB_basic /\ idx_file = NoIndexFile
              /\ index = KrakenDBIndex_basic /\ index_ptr = NULL /\ shl64 = One

\* ------------------------------------------------------------------------
\* Opening a database file
\* ------------------------------------------------------------------------
\* File type code for Jellyfish/Kraken DBs
DATABASE_FILE_TYPE == "JFLISTDN"

\* KrakenDB::KrakenDB(char *ptr) over a file with the given header: the
\* object constructed, or the message errx ends the process with
KrakenDB(hdr) ==
    IF hdr.magic # DATABASE_FILE_TYPE
    THEN [errx |-> "database in improper format"]
    ELSE IF hdr.val_len # 4
    THEN [errx |-> "can only handle 4 byte DB values"]
    ELSE [errx |-> NULL,
          key_bits |-> hdr.key_bits,
          val_len |-> hdr.val_len,
          key_ct |-> hdr.key_ct,
          k |-> (hdr.key_bits \div 2) % 256,
          key_len |-> (hdr.key_bits \div 8) + (IF hdr.key_bits % 8 # 0 THEN 1 ELSE 0)]

\* the header of a well-formed database file of key_ct k-mers of length k
Header(k, key_ct) ==
    [magic |-> DATABASE_FILE_TYPE, key_bits |-> 2 * k, val_len |-> 4, key_ct |-> key_ct]

\* ------------------------------------------------------------------------
\* The index: make_index, KrakenDBIndex
\* ------------------------------------------------------------------------
\* File type code on Kraken DB index
KRAKEN_INDEX_STRING == "KRAKIDX"

\* File type code for Kraken DB index (v2)
KRAKEN_INDEX2_STRING == "KRAKIX2"

\* the counting loop of make_index missing the first pair
BinCounts_skip(d, ps, nt) ==
    LET entries == 4 ^ nt
        b_keys == [i \in 1..d.key_ct |-> ToInt(bin_key_nt(d.key_bits, ps[i].key, nt))] @@ <<>>
    IN  [b \in 0..(entries - 1) |-> Cardinality({ i \in 2..d.key_ct : b_keys[i] = b })]

\* the counting loop of make_index: for each pair i, memcpy key_len bytes
\* into kmer (no mask), b_key = bin_key(kmer, nt), bin_counts[b_key]++
BinCounts(d, ps, nt) ==
    LET entries == 4 ^ nt
        b_keys == [i \in 1..d.key_ct |-> ToInt(bin_key_nt(d.key_bits, ps[i].key, nt))] @@ <<>>
    IN  [b \in 0..(entries - 1) |-> Cardinality({ i \in 1..d.key_ct : b_keys[i] = b })]

\* the prefix sums leaving out the count of bin 0
RECURSIVE BinOffset_from1(_, _)
BinOffset_from1(counts, i) ==
    IF i <= 1 THEN 0 ELSE BinOffset_from1(counts, i - 1) + counts[i - 1]

\* bin_offsets[0] = 0; bin_offsets[i] = bin_offsets[i-1] + bin_counts[i-1]
RECURSIVE BinOffset(_, _)
BinOffset(counts, i) ==
    IF i = 0 THEN 0 ELSE BinOffset(counts, i - 1) + counts[i - 1]

\* the end of make_index: the index file written from the bin counts
WriteIndex(counts, nt) ==
    [magic |-> KRAKEN_INDEX2_STRING,
     nt |-> nt,
     offsets |-> [i \in 0..(4 ^ nt) |-> BinOffset(counts, i)] @@ <<>>]

\* make_index(index_filename, nt): the index file written
make_index(d, ps, nt) == WriteIndex(BinCounts(d, ps, nt) @@ <<>>, nt)

\* KrakenDBIndex::KrakenDBIndex(char *ptr) over an index file: the object
\* constructed, or the message errx ends the process with
KrakenDBIndex(f) ==
    IF f.magic = KRAKEN_INDEX_STRING
    THEN [errx |-> NULL, idx_type |-> 1, nt |-> f.nt, array |-> f.offsets]
    ELSE IF f.magic = KRAKEN_INDEX2_STRING
    THEN [errx |-> NULL, idx_type |-> 2, nt |-> f.nt, array |-> f.offsets]
    ELSE [errx |-> "illegal Kraken DB index format"]

\* KrakenDBIndex::at(idx) of a build without TESTING: array[idx]
at(ix, idx) == ix.array[idx]

\* what reading array[idx] past the end of the mapped index file can give:
\* whatever bytes follow the file in the mapping, or a fault
OutOfBoundsRead ==
    { [errx |-> NULL, val |-> v] : v \in {0, 7} } \cup { [errx |-> "SIGSEGV", val |-> 0] }

\* KrakenDBIndex::at(idx) of a TESTING build: the outcomes.  The guard is
\* idx > 1 + (1ull << (nt * 2)); the array holds the entries 0..4^nt
at_TESTING(ix, idx) ==
    IF idx > 1 + 4 ^ ix.nt
    THEN { [errx |-> "KrakenDBIndex::at() called with illegal index", val |-> 0] }
    ELSE IF idx \in DOMAIN ix.array
    THEN { [errx |-> NULL, val |-> ix.array[idx]] }
    ELSE OutOfBoundsRead

\* ------------------------------------------------------------------------
\* kmer_query
\* ------------------------------------------------------------------------
\* comp_kmer of pair mid: FAST_COPY of key_len bytes, then
\* comp_kmer &= (1ull << key_bits) - 1.  The shift is undefined for
\* key_bits = 64; sh is what the build computes for it
CompKmer(d, ps, sh, mid) ==
    And(ps[mid + 1].key, Sub(IF d.key_bits >= 64 THEN sh ELSE Shl(One, d.key_bits), One))

\* the linear search from mid on: the pair whose key equals kmer, or none
RECURSIVE LinearSearch(_, _, _, _, _, _)
LinearSearch(d, ps, sh, kmer, mid, max) ==
    IF mid > max THEN NoPair
    ELSE IF kmer = CompKmer(d, ps, sh, mid) THEN mid
    ELSE LinearSearch(d, ps, sh, kmer, mid + 1, max)

\* the binary search while (min + threshold <= max), then the linear search
RECURSIVE HybridSearchAt(_, _, _, _, _, _, _)
HybridSearchAt(threshold, d, ps, sh, kmer, min, max) ==
    IF min + threshold <= max
    THEN LET mid == min + ((max - min) \div 2)
             comp_kmer == CompKmer(d, ps, sh, mid)
         IN  IF Lt(comp_kmer, kmer) THEN HybridSearchAt(threshold, d, ps, sh, kmer, mid + 1, max)
             ELSE IF Lt(kmer, comp_kmer) THEN HybridSearchAt(threshold, d, ps, sh, kmer, min, mid - 1)
             ELSE mid
    ELSE LinearSearch(d, ps, sh, kmer, min, max)

\* the binary search with a large window, then the linear search:
\* while (min + 15 <= max)
HybridSearch(d, ps, sh, kmer, min, max) == HybridSearchAt(15, d, ps, sh, kmer, min, max)

\* kmer_query(kmer, last_bin_key, min_pos, max_pos, false): the pointers are
\* neither read nor written
kmer_query_no_retry(d, ix, ps, sh, kmer) ==
    LET b_key == ToInt(bin_key(d.key_bits, ix.idx_type, ix.nt, kmer))
    IN  HybridSearch(d, ps, sh, kmer, at(ix, b_key), at(ix, b_key + 1) - 1)

\* kmer_query(kmer): kmer_query(kmer, NULL, NULL, NULL, false)
kmer_query(d, ix, ps, sh, kmer) == kmer_query_no_retry(d, ix, ps, sh, kmer)

\* the bin of a k-mer as the caller's state records it
BinWindow(d, ix, kmer) ==
    LET b_key == ToInt(bin_key(d.key_bits, ix.idx_type, ix.nt, kmer))
    IN  [last_bin_key |-> b_key, min_pos |-> at(ix, b_key), max_pos |-> at(ix, b_key + 1) - 1]

\* the stateful query invalidating the caller's window on a hit
kmer_query_state_reset(d, ix, ps, sh, kmer, st) ==
    LET b_key == ToInt(bin_key(d.key_bits, ix.idx_type, ix.nt, kmer))
        bin == [last_bin_key |-> b_key,
                min_pos |-> at(ix, b_key),
                max_pos |-> at(ix, b_key + 1) - 1]
        found == HybridSearch(d, ps, sh, kmer, st.min_pos, st.max_pos)
    IN  IF st.min_pos <= st.max_pos /\ found # NoPair
        THEN [ret |-> found, st |-> [st EXCEPT !.min_pos = 1, !.max_pos = 0]]
        ELSE [ret |-> HybridSearch(d, ps, sh, kmer, bin.min_pos, bin.max_pos), st |-> bin]

\* kmer_query(kmer, &last_bin_key, &min_pos, &max_pos) with the caller's
\* state st: the result and the caller's state afterwards
kmer_query_state(d, ix, ps, sh, kmer, st) ==
    LET b_key == ToInt(bin_key(d.key_bits, ix.idx_type, ix.nt, kmer))
        bin == [last_bin_key |-> b_key,
                min_pos |-> at(ix, b_key),
                max_pos |-> at(ix, b_key + 1) - 1]
    IN  IF st.min_pos <= st.max_pos
        THEN LET found == HybridSearch(d, ps, sh, kmer, st.min_pos, st.max_pos)
             IN  IF found # NoPair THEN [ret |-> found, st |-> st]
                 ELSE IF b_key = st.last_bin_key THEN [ret |-> NoPair, st |-> st]
                 ELSE [ret |-> kmer_query_no_retry(d, ix, ps, sh, kmer), st |-> bin]
        ELSE [ret |-> HybridSearch(d, ps, sh, kmer, bin.min_pos, bin.max_pos), st |-> bin]

\* ------------------------------------------------------------------------
\* Inputs
\* ------------------------------------------------------------------------
\* all DNA strings of length n
AllStrings(n) == [1..n -> {"A", "C", "G", "T"}]

\* the k-mers of the worked examples
ExampleStrings ==
    { <<"A", "T", "C", "G", "C", "C", "C", "C">>, <<"A", "C", "G", "T">>,
      <<"T", "T", "T", "T", "A", "A", "A", "A">> }

\* the k-mer strings of length n the primitives are called with: a head
\* pattern, then one base repeated, then a last base; and the examples
KmerStrings(n) ==
    { [i \in 1..n |-> IF i = n THEN l ELSE IF i <= PatLen THEN p[i] ELSE f] :
        p \in AllStrings(PatLen),
        f \in {"A", "C", "G", "T"}, l \in {"A", "C", "G", "T"} }
    \cup { s \in ExampleStrings : Len(s) = n }

\* the k-mer lengths bin_key is called with: every small k, those of the
\* examples, the largest minimizer length and the largest k
BinKs == (1..SmallK) \cup {4, 8, 15, 32}

\* the minimizer lengths bin_key is called with on k-mers of length k: every
\* one for a small k; the two smallest, one in between and the largest for a
\* large k
BinNts(k) == IF k <= SmallK THEN 1..k ELSE {1, 2, 8, 15} \cap (1..k)

\* the k-mer strings of length k bin_key is called with: every string of a
\* small k; a head pattern followed by one base repeated, and the examples,
\* for a large k
MinimizerStrings(k) ==
    IF k <= SmallK THEN AllStrings(k)
    ELSE { [i \in 1..k |-> IF i <= PatLen THEN p[i] ELSE f] :
             p \in AllStrings(PatLen), f \in {"A", "C", "G", "T"} }
         \cup { str \in ExampleStrings : Len(str) = k }

Min(a, b) == IF a < b THEN a ELSE b

\* ------------------------------------------------------------------------
\* SpecKmer: calls of reverse_complement and canonical_representation on
\* k-mers of every length 1..32
\* ------------------------------------------------------------------------
KmerInit ==
    /\ call_op = "none"
    /\ call_n \in 1..WordDigits
    /\ call_kmer \in { string_to_kmer(s) : s \in KmerStrings(call_n) }
    /\ call_ret = Zero
    /\ NoDatabase
    /\ NoQueries
    /\ NoThreads

CallReverseComplement ==
    /\ call_op' = "reverse_complement"
    /\ call_ret' = reverse_complement(call_kmer, call_n)
    /\ UNCHANGED <<call_n, call_kmer, dbvars, qvars, thrvars>>

CallCanonicalRepresentation ==
    /\ call_op' = "canonical_representation"
    /\ call_ret' = canonical_representation(call_kmer, call_n)
    /\ UNCHANGED <<call_n, call_kmer, dbvars, qvars, thrvars>>

\* the caller passes the value returned to the next call
PassResult ==
    /\ call_op # "none"
    /\ call_op' = "none"
    /\ call_kmer' = call_ret
    /\ call_ret' = Zero
    /\ UNCHANGED <<call_n, dbvars, qvars, thrvars>>

KmerNext == CallReverseComplement \/ CallCanonicalRepresentation \/ PassResult

SpecKmer == KmerInit /\ [][KmerNext]_vars

\* ------------------------------------------------------------------------
\* Properties of reverse_complement and canonical_representation (SpecKmer)
\* ------------------------------------------------------------------------
\* the reference reverse complement of a DNA string: the string reversed,
\* each base complemented (A<->T, C<->G)
Complement(c) == CASE c = "A" -> "T" [] c = "T" -> "A" [] c = "C" -> "G" [] c = "G" -> "C"

RevCompStr(str) == [i \in 1..Len(str) |-> Complement(str[Len(str) + 1 - i])]

\* C5: reverse_complement is an involution: for n in 1..32 and x below
\* 2^(2n), reverse_complement(reverse_complement(x, n), n) = x
C5_Involution ==
    call_op = "reverse_complement" => reverse_complement(call_ret, call_n) = call_kmer

\* a call on a 32-mer that is not its own reverse complement has returned
C5_Witness ==
    /\ call_op = "reverse_complement"
    /\ call_n = 32
    /\ call_ret # call_kmer
    /\ call_kmer[31] # 0

\* C6: reverse_complement(x, n) is the packed encoding of the reference
\* reverse complement of the base sequence of x (the sequence reversed, each
\* base complemented), in the low 2n bits with every higher bit zero
C6_Reference ==
    call_op = "reverse_complement" =>
        /\ call_ret = string_to_kmer(RevCompStr(kmer_to_string(call_kmer, call_n)))
        /\ \A i \in Pos : i >= call_n => call_ret[i] = 0

\* reverse_complement(encode("ATCGCCCC"), 8) has returned "GGGGCGAT"
C6_Witness ==
    /\ call_op = "reverse_complement"
    /\ call_n = 8
    /\ kmer_to_string(call_kmer, 8) = <<"A", "T", "C", "G", "C", "C", "C", "C">>
    /\ kmer_to_string(call_ret, 8) = <<"G", "G", "G", "G", "C", "G", "A", "T">>

\* C7: canonical_representation(x, n) is the unsigned minimum of x and
\* reverse_complement(x, n): it is one of the two and is <= both
C7_UnsignedMin ==
    call_op = "canonical_representation" =>
        LET revcom == reverse_complement(call_kmer, call_n)
        IN  /\ call_ret \in {call_kmer, revcom}
            /\ Le(call_ret, call_kmer)
            /\ Le(call_ret, revcom)

\* a call on a 32-mer with its top bit set has returned its reverse
\* complement, which is smaller only as an unsigned value
C7_Witness ==
    /\ call_op = "canonical_representation"
    /\ call_n = 32
    /\ call_kmer[31] >= 2
    /\ call_ret # call_kmer
    /\ call_ret = reverse_complement(call_kmer, call_n)

\* C8: canonical_representation is constant on each strand pair and fixed on
\* its own output: canonical(y, n) = canonical(x, n) for y the reverse
\* complement of x and for y = canonical(x, n)
C8_StrandSymmetry ==
    call_op = "canonical_representation" =>
        \A y \in {reverse_complement(call_kmer, call_n), call_ret} :
            canonical_representation(y, call_n) = call_ret

\* a call on a k-mer that is neither canonical nor its own reverse
\* complement has returned
C8_Witness ==
    /\ call_op = "canonical_representation"
    /\ call_ret # call_kmer
    /\ call_n \in {1, 31}

\* ------------------------------------------------------------------------
\* SpecBin: calls of bin_key on a database bound to an index
\* ------------------------------------------------------------------------
BinInit ==
    /\ \E k \in BinKs :
         /\ file = Header(k, 0)
         /\ db = KrakenDB(file)
         /\ call_n \in BinNts(k)
         /\ call_kmer \in { string_to_kmer(s) : s \in MinimizerStrings(k) }
    /\ \E t \in {1, 2} :
         index = [errx |-> NULL, idx_type |-> t, nt |-> call_n, array |-> <<>>]
    /\ index_ptr = "index"
    /\ call_op = "none"
    /\ call_ret = Zero
    /\ proc = "running" /\ pairs = <<>> /\ idx_file = NoIndexFile /\ shl64 = One
    /\ NoQueries
    /\ NoThreads

\* bin_key(kmer) with the bound index
CallBinKey ==
    /\ call_op' = "bin_key"
    /\ call_ret' = bin_key(db.key_bits, index.idx_type, index.nt, call_kmer)
    /\ UNCHANGED <<call_n, call_kmer, dbvars, qvars, thrvars>>

\* bin_key(kmer, idx_nt)
CallBinKeyNt ==
    /\ call_op' = "bin_key_nt"
    /\ call_ret' = bin_key_nt(db.key_bits, call_kmer, call_n)
    /\ UNCHANGED <<call_n, call_kmer, dbvars, qvars, thrvars>>

BinNext == CallBinKey \/ CallBinKeyNt

SpecBin == BinInit /\ [][BinNext]_vars

\* ------------------------------------------------------------------------
\* Properties of bin_key (SpecBin)
\* ------------------------------------------------------------------------
\* the length-nt substrings of a k-mer of length k, packed
Substrings(kmer, k, nt) ==
    LET str == kmer_to_string(kmer, k)
    IN  { string_to_kmer(SubSeq(str, j, j + nt - 1)) : j \in 1..(k - nt + 1) }

\* xor_mask & (4^nt - 1), xor_mask being 0 for a v1 index and
\* 0xe37e28c4271b5a2d for a v2 index
EffectiveXor(idx_type, nt) ==
    And(IF idx_type = 1 THEN Zero ELSE INDEX2_XOR_MASK, FromInt(4 ^ nt - 1))

\* C9: bin_key returns the minimum, over the k - nt + 1 length-nt substrings
\* s of the k-mer, of effective_xor XOR canonical(s, nt)
C9_Minimizer ==
    call_op = "bin_key" =>
        LET eff == EffectiveXor(index.idx_type, index.nt)
            vals == { Xor(eff, canonical_representation(sub, index.nt)) :
                        sub \in Substrings(call_kmer, db.k, index.nt) }
        IN  /\ call_ret \in vals
            /\ \A v \in vals : Le(call_ret, v)

\* bin_key of ACGT with nt = 2 and a v1 index has returned 1
C9_Witness ==
    /\ call_op = "bin_key"
    /\ db.k = 4
    /\ index.nt = 2
    /\ index.idx_type = 1
    /\ kmer_to_string(call_kmer, 4) = <<"A", "C", "G", "T">>
    /\ call_ret = One

\* C21: for every k-mer and every nt with 1 <= nt <= min(k, 15), bin_key
\* returns a value in [0, 4^nt): b + 1 <= 4^nt, so at(b), at(b + 1) and
\* bin_counts[b] stay within the 4^nt + 1 offsets and the 4^nt counts
C21_BinKeyRange ==
    call_op \in {"bin_key", "bin_key_nt"} =>
        /\ \A i \in Pos : i >= call_n => call_ret[i] = 0
        /\ ToInt(call_ret) + 1 <= 4 ^ call_n

\* bin_key of a 32-mer with a v2 index of nt = 15 has returned a value
\* whose highest base is set
C21_Witness ==
    /\ call_op = "bin_key"
    /\ db.k = 32
    /\ index.idx_type = 2
    /\ call_n = 15
    /\ call_ret[14] # 0

\* C22: bin_key is strand-invariant: for every k-mer x packed in the low 2k
\* bits and every nt with 1 <= nt <= min(k, 15),
\* bin_key(x) = bin_key(reverse_complement(x, k))
C22_StrandInvariant ==
    call_op = "bin_key" =>
        call_ret = bin_key(db.key_bits, index.idx_type, index.nt,
                           reverse_complement(call_kmer, db.k))

\* bin_key of a 32-mer that is not its own reverse complement has returned
\* with a v2 index of nt > 1
C22_Witness ==
    /\ call_op = "bin_key"
    /\ db.k = 32
    /\ index.idx_type = 2
    /\ index.nt > 1
    /\ reverse_complement(call_kmer, db.k) # call_kmer
    /\ canonical_representation(call_kmer, db.k) # call_kmer

\* ------------------------------------------------------------------------
\* Database files
\* ------------------------------------------------------------------------
\* the k-mer lengths of the databases: a short one, whose last key byte has
\* bits beyond key_bits, and the longest, whose keys fill the 64 bits
DbKs == {3, 32}

\* a base followed by A's
HeadString(h, k) == [i \in 1..k |-> IF i = 1 THEN h ELSE "A"]

\* the k-mers a sparse database draws its keys from
SparseStrings(k) ==
    { HeadString(h, k) : h \in (IF k < WordDigits THEN {"A", "C", "T"} ELSE {"A", "C"}) }

\* the sets of canonical k-mers stored: the small sets, and for a short k
\* every canonical k-mer (a bin large enough for the binary search to run)
KeySets(k) ==
    LET sparse == { canonical_representation(string_to_kmer(str), k) : str \in SparseStrings(k) }
        dense == { canonical_representation(string_to_kmer(str), k) : str \in AllStrings(k) }
    IN  { keys \in SUBSET sparse : Cardinality(keys) <= MaxKeyCt }
        \cup (IF k < WordDigits THEN {dense} ELSE {})

\* the bits of a stored key: the k-mer in its low key_bits bits; the bits
\* from key_bits up to the end of the last of the key_len bytes are whatever
\* the file holds there (g = 0: zero)
StoredKey(kmer, key_bits, key_len, g) ==
    MkWord([i \in Pos |-> IF i < key_bits \div 2 THEN kmer[i]
                          ELSE IF i < 4 * key_len THEN (g * (1 + kmer[0])) % 4
                          ELSE 0])

\* the keys in the order of (bin key for minimizer length nt, key)
SortedKeys(keys, key_bits, nt) ==
    LET b == [x \in keys |-> ToInt(bin_key_nt(key_bits, x, nt))] @@ <<>>
        rank == [x \in keys |->
                   Cardinality({ y \in keys : \/ b[y] < b[x]
                                              \/ b[y] = b[x] /\ Lt(y, x) })] @@ <<>>
    IN  [i \in 1..Cardinality(keys) |-> CHOOSE x \in keys : rank[x] = i - 1]

Reverse(seq) == [i \in 1..Len(seq) |-> seq[Len(seq) + 1 - i]]

\* the pair array holding the given keys in the given order
PairArray(sorted, d, g) ==
    [i \in 1..Len(sorted) |->
        [key |-> StoredKey(sorted[i], d.key_bits, d.key_len, g), val |-> 1 + sorted[i][0]]]

\* ------------------------------------------------------------------------
\* SpecIndex: make_index over a pair array, then the index file is opened
\* and bound to the database
\* ------------------------------------------------------------------------
IndexInit ==
    /\ \E k \in DbKs, g \in {0, 3} :
         \E keys \in KeySets(k) :
            /\ file = Header(k, Cardinality(keys))
            /\ db = KrakenDB(file)
            /\ \E nt \in 1..MaxNt, rev \in BOOLEAN :
                 LET sorted == SortedKeys(keys, 2 * k, nt)
                 IN  pairs = PairArray(IF rev THEN Reverse(sorted) ELSE sorted, db, g)
    /\ proc = "running"
    /\ idx_file = NoIndexFile
    /\ index = KrakenDBIndex_basic
    /\ index_ptr = NULL
    /\ shl64 = One
    /\ NoCalls
    /\ NoQueries
    /\ NoThreads

\* db.make_index(index_filename, nt)
MakeIndex ==
    /\ idx_file = NoIndexFile
    /\ \E nt \in 1..Min(db.k, MaxNt) : idx_file' = make_index(db, pairs, nt)
    /\ UNCHANGED <<callvars, proc, file, pairs, db, index, index_ptr, shl64, qvars, thrvars>>

\* KrakenDBIndex(ptr) over the mapped index file
OpenIndex ==
    /\ idx_file # NoIndexFile
    /\ index = KrakenDBIndex_basic
    /\ index' = KrakenDBIndex(idx_file)
    /\ UNCHANGED <<callvars, proc, file, pairs, db, idx_file, index_ptr, shl64, qvars, thrvars>>

\* db.set_index(&index)
SetIndex ==
    /\ index # KrakenDBIndex_basic
    /\ index_ptr = NULL
    /\ index_ptr' = "index"
    /\ UNCHANGED <<callvars, proc, file, pairs, db, idx_file, index, shl64, qvars, thrvars>>

IndexNext == MakeIndex \/ OpenIndex \/ SetIndex

SpecIndex == IndexInit /\ [][IndexNext]_vars

\* ------------------------------------------------------------------------
\* Properties of make_index (SpecIndex)
\* ------------------------------------------------------------------------
\* the k-mer of a stored key: its low 2k bits
LowBits(w, k) == [i \in Pos |-> IF i < k THEN w[i] ELSE 0]

\* the bin key, for minimizer length nt, of the k-mer of pair i
PairBin(d, ps, nt, i) == ToInt(bin_key_nt(d.key_bits, LowBits(ps[i].key, d.k), nt))

\* the pair array is sorted by (bin key, key): bins in non-decreasing order
\* of bin key, keys strictly increasing within a bin
SortedByBin(d, ps, nt) ==
    LET b == [i \in 1..Len(ps) |-> PairBin(d, ps, nt, i)] @@ <<>>
    IN  \A i \in 1..(Len(ps) - 1) :
            \/ b[i] < b[i + 1]
            \/ b[i] = b[i + 1] /\ Lt(LowBits(ps[i].key, d.k), LowBits(ps[i + 1].key, d.k))

\* C3: the offsets written by make_index satisfy offsets[0] = 0,
\* offsets[i] <= offsets[i+1] for 0 <= i < 4^nt, and offsets[4^nt] = key_ct,
\* whatever the order of the pair array
C3_Offsets ==
    idx_file # NoIndexFile =>
        LET entries == 4 ^ idx_file.nt
        IN  /\ DOMAIN idx_file.offsets = 0..entries
            /\ idx_file.offsets[0] = 0
            /\ \A i \in 0..(entries - 1) : idx_file.offsets[i] <= idx_file.offsets[i + 1]
            /\ idx_file.offsets[entries] = db.key_ct

\* an index with nt = 2 has been written for an array of every canonical
\* 3-mer that is not sorted
C3_Witness ==
    /\ idx_file # NoIndexFile
    /\ idx_file.nt = 2
    /\ db.key_ct > MaxKeyCt
    /\ ~SortedByBin(db, pairs, 2)
    /\ \E i \in DOMAIN idx_file.offsets :
          0 < idx_file.offsets[i] /\ idx_file.offsets[i] < db.key_ct

\* C4: for a pair array sorted by (bin key, key) and the index built from
\* it, the pair at position i with key x lies in the bin of its bin key:
\* offsets[b] <= i < offsets[b+1] where b = bin_key(x, nt)
C4_PairInBin ==
    idx_file # NoIndexFile =>
        (SortedByBin(db, pairs, idx_file.nt) =>
            \A i \in 1..Len(pairs) :
                LET b == PairBin(db, pairs, idx_file.nt, i)
                IN  /\ idx_file.offsets[b] <= i - 1
                    /\ i - 1 < idx_file.offsets[b + 1])

\* an index has been written for a sorted array whose stored keys carry
\* bits above key_bits and whose pairs fall into several bins
C4_Witness ==
    /\ idx_file # NoIndexFile
    /\ Len(pairs) > MaxKeyCt
    /\ \E i \in 1..Len(pairs) : pairs[i].key # LowBits(pairs[i].key, db.k)
    /\ SortedByBin(db, pairs, idx_file.nt)
    /\ \E i \in DOMAIN idx_file.offsets :
          0 < idx_file.offsets[i] /\ idx_file.offsets[i] < db.key_ct

\* the pair array with each stored key masked to its low key_bits bits
MaskedPairs(d, ps) ==
    [i \in 1..Len(ps) |-> [key |-> MkWord(LowBits(ps[i].key, d.k)), val |-> ps[i].val]]

\* C20: the index file make_index writes, bin counts and offsets, is the one
\* computed from each stored key masked to its low key_bits bits: the bits
\* above key_bits in the last byte of a stored key never change the bin the
\* pair is counted in
C20_GarbageIgnored ==
    idx_file # NoIndexFile =>
        idx_file = make_index(db, MaskedPairs(db, pairs), idx_file.nt)

\* an index with nt = 2 has been written for every canonical 3-mer, stored
\* with bits set above key_bits
C20_Witness ==
    /\ idx_file # NoIndexFile
    /\ idx_file.nt = 2
    /\ db.key_bits = 2 * SmallK
    /\ db.key_ct > MaxKeyCt
    /\ \E i \in 1..Len(pairs) : pairs[i].key[db.k] # 0

\* ------------------------------------------------------------------------
\* SpecCount: make_index with the iterations of its counting loop handed to
\* the threads of the parallel region, chunk by chunk, in any order
\* ------------------------------------------------------------------------
\* the sets of canonical 3-mers stored
CountKeySets ==
    SUBSET { canonical_representation(string_to_kmer(str), SmallK) : str \in SparseStrings(SmallK) }

CountInit ==
    /\ \E g \in {0, 3}, keys \in CountKeySets :
         /\ file = Header(SmallK, Cardinality(keys))
         /\ db = KrakenDB(file)
         /\ \E rev \in BOOLEAN :
              LET sorted == SortedKeys(keys, 2 * SmallK, 1)
              IN  pairs = PairArray(IF rev THEN Reverse(sorted) ELSE sorted, db, g)
    /\ proc = "running"
    /\ idx_file = NoIndexFile
    /\ index = KrakenDBIndex_basic
    /\ index_ptr = NULL
    /\ shl64 = One
    /\ NoCalls
    /\ NoQueries
    /\ NoThreads

\* a store to the counter that is not an increment
AtomicIncrement_store(counts, b) == [counts EXCEPT ![b] = 1]

\* #pragma omp atomic  bin_counts[b_key]++
AtomicIncrement(counts, b) == [counts EXCEPT ![b] = @ + 1]

\* db.make_index(index_filename, nt) up to the parallel region:
\* vector<uint64_t> bin_counts(entries)
EnterMakeIndex ==
    /\ mi_nt = 0
    /\ idx_file = NoIndexFile
    /\ \E nt \in 1..Min(db.k, MaxNt) :
         /\ mi_nt' = nt
         /\ bin_counts' = [b \in 0..(4 ^ nt - 1) |-> 0]
    /\ UNCHANGED <<callvars, dbvars, qvars, next_i, thr, cqvars>>

\* schedule(dynamic): an idle thread takes the next chunk of iterations
TakeChunk(t) ==
    /\ mi_nt > 0
    /\ thr[t].pc = "idle"
    /\ next_i < db.key_ct
    /\ next_i' = Min(next_i + Chunk, db.key_ct)
    /\ thr' = [thr EXCEPT ![t] = [pc |-> "kmer", i |-> next_i, hi |-> next_i', b_key |-> @.b_key]]
    /\ UNCHANGED <<callvars, dbvars, qvars, mi_nt, bin_counts, cqvars>>

\* iteration i up to the increment: memcpy of key_len bytes into kmer,
\* b_key = bin_key(kmer, nt)
ComputeBinKey(t) ==
    /\ thr[t].pc = "kmer"
    /\ thr' = [thr EXCEPT ![t].b_key = ToInt(bin_key_nt(db.key_bits, pairs[thr[t].i + 1].key, mi_nt)),
                          ![t].pc = "incr"]
    /\ UNCHANGED <<callvars, dbvars, qvars, mi_nt, next_i, bin_counts, cqvars>>

\* the atomic increment of iteration i, and i++
Increment(t) ==
    /\ thr[t].pc = "incr"
    /\ bin_counts' = AtomicIncrement(bin_counts, thr[t].b_key)
    /\ thr' = [thr EXCEPT ![t].i = @ + 1,
                          ![t].pc = IF thr[t].i + 1 < thr[t].hi THEN "kmer" ELSE "idle"]
    /\ UNCHANGED <<callvars, dbvars, qvars, mi_nt, next_i, cqvars>>

\* after the barrier that ends the parallel region: the offsets are summed
\* and the index file is written
LeaveMakeIndex ==
    /\ mi_nt > 0
    /\ idx_file = NoIndexFile
    /\ next_i = db.key_ct
    /\ \A t \in Threads : thr[t].pc = "idle"
    /\ idx_file' = WriteIndex(bin_counts, mi_nt)
    /\ UNCHANGED <<callvars, proc, file, pairs, db, index, index_ptr, shl64, qvars, thrvars>>

CountNext ==
    \/ EnterMakeIndex
    \/ \E t \in Threads : TakeChunk(t)
    \/ \E t \in Threads : ComputeBinKey(t)
    \/ \E t \in Threads : Increment(t)
    \/ LeaveMakeIndex

SpecCount == CountInit /\ [][CountNext]_vars

\* C12: for every interleaving of the parallel counting loop of make_index,
\* each increment being atomic, the final bin_counts equal the sequential
\* histogram of the bin keys of the stored pairs, and the index file written
\* is the one the sequential loop gives
C12_Histogram ==
    idx_file # NoIndexFile =>
        /\ bin_counts = BinCounts(db, pairs, mi_nt)
        /\ idx_file = make_index(db, pairs, mi_nt)

\* an index file has been written after every thread took iterations, the
\* last thread the first one, and two pairs were counted in one bin
C12_Witness ==
    /\ idx_file # NoIndexFile
    /\ thr[NThreads].hi = Chunk
    /\ \A t \in Threads : thr[t].hi > 0
    /\ \E b \in DOMAIN bin_counts : bin_counts[b] >= 2

\* ------------------------------------------------------------------------
\* SpecQuery: stateless and stateful queries against a database that is
\* sorted for, and bound to, the index make_index built from it
\* ------------------------------------------------------------------------
\* the k-mers queried: those a sparse database may hold, and their reverse
\* complements
QueryStrings(k) ==
    SparseStrings(k) \cup { RevCompStr(str) : str \in SparseStrings(k) }

QueryInit ==
    /\ \E k \in DbKs, g \in {0, 3} :
         \E keys \in KeySets(k) :
            /\ file = Header(k, Cardinality(keys))
            /\ db = KrakenDB(file)
            /\ \E nt \in 1..Min(k, MaxNt) :
                 /\ pairs = PairArray(SortedKeys(keys, 2 * k, nt), db, g)
                 /\ idx_file = make_index(db, pairs, nt)
            /\ shl64 \in (IF db.key_bits >= 64 THEN {One, Zero} ELSE {One})
    /\ proc = "running"
    /\ index = KrakenDBIndex(idx_file)
    /\ index_ptr = "index"
    /\ NoCalls
    /\ NoQueries
    /\ NoThreads

\* db.kmer_query(kmer)
KmerQuery ==
    /\ \E str \in QueryStrings(db.k) :
         /\ q_kmer' = string_to_kmer(str)
         /\ q_ret' = kmer_query(db, index, pairs, shl64, q_kmer')
    /\ q_call' = "stateless"
    /\ UNCHANGED <<callvars, dbvars, last_bin_key, min_pos, max_pos, q_in, thrvars>>

\* db.kmer_query(kmer, &last_bin_key, &min_pos, &max_pos)
StatefulQuery ==
    /\ \E str \in QueryStrings(db.k) :
         \E r \in { kmer_query_state(db, index, pairs, shl64, string_to_kmer(str),
                    [last_bin_key |-> last_bin_key, min_pos |-> min_pos, max_pos |-> max_pos]) } :
             /\ q_kmer' = string_to_kmer(str)
             /\ q_ret' = r.ret
             /\ last_bin_key' = r.st.last_bin_key
             /\ min_pos' = r.st.min_pos
             /\ max_pos' = r.st.max_pos
    /\ q_call' = "stateful"
    /\ q_in' = [last_bin_key |-> last_bin_key, min_pos |-> min_pos, max_pos |-> max_pos]
    /\ UNCHANGED <<callvars, dbvars, thrvars>>

QueryNext == KmerQuery \/ StatefulQuery

SpecQuery == QueryInit /\ [][QueryNext]_vars

\* ------------------------------------------------------------------------
\* Properties of kmer_query (SpecQuery)
\* ------------------------------------------------------------------------
\* the position of the pair whose k-mer is kmer, NoPair when none is stored
StoredAt(d, ps, kmer) ==
    IF \E i \in 1..Len(ps) : LowBits(ps[i].key, d.k) = kmer
    THEN (CHOOSE i \in 1..Len(ps) : LowBits(ps[i].key, d.k) = kmer) - 1
    ELSE NoPair

\* I1-I3 and the index: every stored k-mer is canonical, the pair array is
\* sorted by (bin key, key), and the index is the one make_index builds
WellFormed(d, ps, ix) ==
    /\ \A i \in 1..Len(ps) :
          canonical_representation(LowBits(ps[i].key, d.k), d.k) = LowBits(ps[i].key, d.k)
    /\ SortedByBin(d, ps, ix.nt)
    /\ ix = KrakenDBIndex(make_index(d, ps, ix.nt))

\* C1: for a pair array satisfying I1-I3 and the index make_index produces
\* from it, the stateless kmer_query returns the stored pair of every stored
\* k-mer and NULL for every k-mer that is not stored
C1_RoundTrip ==
    q_call = "stateless" =>
        \/ q_ret = StoredAt(db, pairs, q_kmer)
        \/ ~WellFormed(db, pairs, index)

\* the stateless query of a stored 32-mer has returned NULL, the build
\* computing 1 for 1ull << 64
C1_StoredKeyMissed ==
    /\ q_call = "stateless"
    /\ db.key_bits = 64
    /\ shl64 = One
    /\ StoredAt(db, pairs, q_kmer) # NoPair
    /\ q_ret = NoPair
    /\ WellFormed(db, pairs, index)

\* C2: each call of the stateful kmer_query, in a sequence starting from a
\* state with min_pos > max_pos, returns what the stateless kmer_query
\* returns for the same k-mer
C2_StatefulAgrees ==
    q_call = "stateful" => q_ret = kmer_query(db, index, pairs, shl64, q_kmer)

\* a stateful query has returned a pair of the cached window of another
\* bin, where the stateless query returns NULL
C2_StaleWindowHit ==
    /\ q_call = "stateful"
    /\ db.key_bits = 64
    /\ shl64 = One
    /\ q_ret # NoPair
    /\ kmer_query(db, index, pairs, shl64, q_kmer) = NoPair

\* the caller's state
QueryState == [last_bin_key |-> last_bin_key, min_pos |-> min_pos, max_pos |-> max_pos]

\* C15: a stateful query called with min_pos <= max_pos leaves
\* (last_bin_key, min_pos, max_pos) unchanged when the search of the cached
\* window finds the k-mer, and returns the pair found; it leaves them
\* unchanged when the search fails and bin_key(kmer) is the incoming
\* last_bin_key, and returns NULL
C15_WindowKept ==
    (q_call = "stateful" /\ q_in.min_pos <= q_in.max_pos) =>
        LET found == HybridSearch(db, pairs, shl64, q_kmer, q_in.min_pos, q_in.max_pos)
        IN  IF found # NoPair
            THEN QueryState = q_in /\ q_ret = found
            ELSE ToInt(bin_key(db.key_bits, index.idx_type, index.nt, q_kmer)) = q_in.last_bin_key
                     => QueryState = q_in /\ q_ret = NoPair

\* a stateful query has returned a pair found in a cached window large
\* enough for the binary search to run
C15_Witness ==
    /\ q_call = "stateful"
    /\ q_in.min_pos <= q_in.max_pos
    /\ q_in.min_pos + 15 <= q_in.max_pos
    /\ q_ret # NoPair
    /\ QueryState = q_in

\* C16: after every stateful query of a sequence that starts from a state
\* with min_pos > max_pos, last_bin_key = bin_key(the k-mer of the call),
\* min_pos = B[last_bin_key] and max_pos = B[last_bin_key + 1] - 1
C16_StateIsBin ==
    q_call = "stateful" =>
        /\ last_bin_key = ToInt(bin_key(db.key_bits, index.idx_type, index.nt, q_kmer))
        /\ min_pos = idx_file.offsets[last_bin_key]
        /\ max_pos = idx_file.offsets[last_bin_key + 1] - 1

\* a stateful query has returned a pair of the cached window and left the
\* state of a bin that is not the bin of its k-mer
C16_StaleState ==
    /\ q_call = "stateful"
    /\ q_ret # NoPair
    /\ QueryState = q_in
    /\ last_bin_key # ToInt(bin_key(db.key_bits, index.idx_type, index.nt, q_kmer))

\* ------------------------------------------------------------------------
\* SpecSteps: kmer_query run statement by statement.  kq holds the locals
\* of the call, and counts the hybrid searches of the call (searches), the
\* keys read (reads) and the positions visited by the linear loop (visited)
\* in the current search; empty records that the search began with min > max
\* ------------------------------------------------------------------------
\* a return of the statement-wise call: after the call made with
\* retry_on_failure = false returns, the caller's state is overwritten
Return(rec, answer) ==
    /\ q_ret' = answer
    /\ kq' = [rec EXCEPT !.pc = "done"]
    /\ IF rec.depth = 2
       THEN /\ last_bin_key' = rec.bin.last_bin_key
            /\ min_pos' = rec.bin.min_pos
            /\ max_pos' = rec.bin.max_pos
       ELSE UNCHANGED <<last_bin_key, min_pos, max_pos>>

\* the call, up to the binary search: kmer_query(kmer) or
\* kmer_query(kmer, &last_bin_key, &min_pos, &max_pos)
EnterQuery ==
    /\ kq.pc \in {"idle", "done"}
    /\ \E str \in QueryStrings(db.k), stateful \in BOOLEAN :
         \E w \in { IF stateful /\ min_pos <= max_pos THEN QueryState
                    ELSE BinWindow(db, index, string_to_kmer(str)) } :
            /\ q_kmer' = string_to_kmer(str)
            /\ q_call' = IF stateful THEN "stateful" ELSE "stateless"
            /\ q_in' = IF stateful THEN QueryState ELSE q_in
            /\ IF stateful
               THEN /\ last_bin_key' = w.last_bin_key
                    /\ min_pos' = w.min_pos
                    /\ max_pos' = w.max_pos
               ELSE UNCHANGED <<last_bin_key, min_pos, max_pos>>
            /\ kq' = [pc |-> "binary", retry_on_failure |-> stateful, depth |-> 1,
                      b_key |-> w.last_bin_key, min |-> w.min_pos, max |-> w.max_pos,
                      mid |-> 0, bin |-> NoWindow, searches |-> 1, reads |-> 0,
                      visited |-> 0, empty |-> (w.min_pos > w.max_pos)]
    /\ q_ret' = NoPair
    /\ UNCHANGED <<callvars, dbvars, mivars, qstate, tq>>

\* while (min + 15 <= max): one iteration, or the exit to the linear loop
BinaryStep ==
    /\ kq.pc = "binary"
    /\ IF kq.min + 15 <= kq.max
       THEN LET mid == kq.min + ((kq.max - kq.min) \div 2)
                rec == [kq EXCEPT !.mid = mid, !.reads = @ + 1]
            IN  \E comp_kmer \in { CompKmer(db, pairs, shl64, mid) } :
                   IF Lt(comp_kmer, q_kmer)
                   THEN /\ kq' = [rec EXCEPT !.min = mid + 1]
                        /\ UNCHANGED <<last_bin_key, min_pos, max_pos, q_ret>>
                   ELSE IF Lt(q_kmer, comp_kmer)
                   THEN /\ kq' = [rec EXCEPT !.max = mid - 1]
                        /\ UNCHANGED <<last_bin_key, min_pos, max_pos, q_ret>>
                   ELSE Return(rec, mid)
       ELSE /\ kq' = [kq EXCEPT !.pc = "linear", !.mid = kq.min]
            /\ UNCHANGED <<last_bin_key, min_pos, max_pos, q_ret>>
    /\ UNCHANGED <<callvars, dbvars, mivars, qstate, tq, q_call, q_kmer, q_in>>

\* for (mid = min; mid <= max; mid++): one iteration, or the exit
LinearStep ==
    /\ kq.pc = "linear"
    /\ IF kq.mid <= kq.max
       THEN LET rec == [kq EXCEPT !.reads = @ + 1, !.visited = @ + 1]
            IN  IF q_kmer = CompKmer(db, pairs, shl64, kq.mid)
                THEN Return(rec, kq.mid)
                ELSE /\ kq' = [rec EXCEPT !.mid = @ + 1]
                     /\ UNCHANGED <<last_bin_key, min_pos, max_pos, q_ret>>
       ELSE /\ kq' = [kq EXCEPT !.pc = "failed"]
            /\ UNCHANGED <<last_bin_key, min_pos, max_pos, q_ret>>
    /\ UNCHANGED <<callvars, dbvars, mivars, qstate, tq, q_call, q_kmer, q_in>>

\* the retry made with retry_on_failure left true
RetryStep_again ==
    /\ kq.pc = "failed"
    /\ \E w \in { BinWindow(db, index, q_kmer) } :
         IF w.last_bin_key = last_bin_key \/ kq.searches > 3
         THEN Return(kq, NoPair)
         ELSE /\ kq' = [kq EXCEPT !.pc = "binary", !.depth = 2, !.b_key = w.last_bin_key,
                                  !.min = w.min_pos, !.max = w.max_pos, !.bin = w,
                                  !.searches = @ + 1, !.reads = 0, !.visited = 0,
                                  !.empty = (w.min_pos > w.max_pos)]
              /\ UNCHANGED <<last_bin_key, min_pos, max_pos, q_ret>>
    /\ UNCHANGED <<callvars, dbvars, mivars, qstate, tq, q_call, q_kmer, q_in>>

\* answer = NULL; if (retry_on_failure): the return of NULL, or the call of
\* kmer_query(kmer, &b_key, &min, &max, false) up to its binary search
RetryStep ==
    /\ kq.pc = "failed"
    /\ IF kq.retry_on_failure
       THEN \E w \in { BinWindow(db, index, q_kmer) } :
               IF w.last_bin_key = last_bin_key
               THEN Return(kq, NoPair)
               ELSE /\ kq' = [kq EXCEPT !.pc = "binary", !.retry_on_failure = FALSE,
                                        !.depth = 2, !.b_key = w.last_bin_key,
                                        !.min = w.min_pos, !.max = w.max_pos,
                                        !.bin = w, !.searches = @ + 1, !.reads = 0,
                                        !.visited = 0, !.empty = (w.min_pos > w.max_pos)]
                    /\ UNCHANGED <<last_bin_key, min_pos, max_pos, q_ret>>
       ELSE Return(kq, NoPair)
    /\ UNCHANGED <<callvars, dbvars, mivars, qstate, tq, q_call, q_kmer, q_in>>

\* the statements of a call in progress
RunQuery == BinaryStep \/ LinearStep \/ RetryStep

StepsNext == EnterQuery \/ RunQuery

SpecSteps == QueryInit /\ [][StepsNext]_vars

\* a call is in progress
Running == kq.pc \in {"binary", "linear", "failed"}

\* a call in progress keeps running: weak fairness of RunQuery, which is
\* enabled exactly when a call is in progress
RunQueryFair == []<>(~Running) \/ []<><<RunQuery>>_vars

SpecStepsFair == SpecSteps /\ RunQueryFair

\* C17: every query call terminates: an iteration of the binary loop
\* strictly shrinks the window [min, max], the linear loop visits at most 15
\* positions, a search of an empty window (max = -1 included) reads no key,
\* and a call makes at most two hybrid searches
C17_Terminates ==
    /\ [](/\ kq.visited <= 15
          /\ kq.searches <= 2
          /\ kq.empty => kq.reads = 0)
    /\ [][(kq.pc = "binary" /\ kq'.pc = "binary") =>
              kq'.max - kq'.min < kq.max - kq.min]_vars
    /\ Running ~> (kq.pc = "done")

\* a stateful call has returned after two hybrid searches, the second one
\* of an empty window with max = -1
C17_Witness ==
    /\ kq.pc = "done"
    /\ kq.searches = 2
    /\ kq.empty /\ kq.max = -1
    /\ kq.reads = 0

\* ------------------------------------------------------------------------
\* SpecSearch: the search of kmer_query over any window of a pair array of
\* strictly increasing keys, with the 15 of its loop condition and with
\* other thresholds
\* ------------------------------------------------------------------------
\* the thresholds: the 15 of the code, smaller ones and a larger one
Thresholds == {1, 4, 15, 16}

\* the pair array holding the even numbers 0, 2, ... as keys
SearchInit ==
    /\ \E k \in DbKs, g \in {0, 3} :
         /\ file = Header(k, SearchLen)
         /\ db = KrakenDB(file)
         /\ pairs = [i \in 1..SearchLen |->
                       [key |-> StoredKey(FromInt(2 * (i - 1)), db.key_bits, db.key_len, g),
                        val |-> i]]
         /\ shl64 \in (IF db.key_bits >= 64 THEN {One, Zero} ELSE {One})
    /\ proc = "running"
    /\ idx_file = NoIndexFile
    /\ index = KrakenDBIndex_basic
    /\ index_ptr = NULL
    /\ NoCalls
    /\ NoQueries
    /\ NoThreads

\* the search of the window [min, max] for a k-mer; call_n is the threshold
SearchWindow ==
    /\ q_call = "none"
    /\ \E min \in 0..(SearchLen - 1), max \in -1..(SearchLen - 1), v \in 0..(2 * SearchLen),
          threshold \in Thresholds :
         /\ min <= max + 1
         /\ call_n' = threshold
         /\ q_kmer' = FromInt(v)
         /\ kq' = [NoCall EXCEPT !.min = min, !.max = max]
         /\ q_ret' = HybridSearchAt(threshold, db, pairs, shl64, q_kmer', min, max)
    /\ q_call' = "search"
    /\ UNCHANGED <<call_op, call_kmer, call_ret, dbvars, last_bin_key, min_pos, max_pos,
                   q_in, mivars, qstate, tq>>

SearchNext == SearchWindow

SpecSearch == SearchInit /\ [][SearchNext]_vars

\* a plain linear scan of the window [lo, hi]: the first pair whose k-mer is
\* kmer, NoPair when there is none
LinearScan(d, ps, kmer, lo, hi) ==
    LET found == { i \in lo..hi : LowBits(ps[i + 1].key, d.k) = kmer }
    IN  IF found = {} THEN NoPair ELSE CHOOSE i \in found : \A j \in found : i <= j

\* C18: for every window [lo, hi] of strictly increasing keys and every
\* k-mer, the hybrid search returns the pair, or the absence, that a plain
\* linear scan of [lo, hi] returns, with the threshold 15 and with any other
C18_ThresholdFree ==
    q_call = "search" => q_ret = LinearScan(db, pairs, q_kmer, kq.min, kq.max)

\* the search with the threshold 15 has returned a pair from the middle of
\* the window, where the search with the threshold 16 and the plain linear
\* scan return the first pair of the window, which holds the k-mer
C18_ThresholdMatters ==
    /\ q_call = "search"
    /\ call_n = 15
    /\ q_ret > kq.min
    /\ HybridSearchAt(16, db, pairs, shl64, q_kmer, kq.min, kq.max) = kq.min
    /\ LinearScan(db, pairs, q_kmer, kq.min, kq.max) = kq.min

\* ------------------------------------------------------------------------
\* SpecMask: the key the search compares, for every key width
\* ------------------------------------------------------------------------
\* a database of one pair for each k from 1 to 32; the key repeats one base,
\* and the bits of its last byte above key_bits are clear (g = 0) or set
MaskInit ==
    /\ \E k \in 1..WordDigits, base \in 1..3, g \in {0, 1, 3} :
         /\ file = Header(k, 1)
         /\ db = KrakenDB(file)
         /\ pairs = <<[key |-> StoredKey(MkWord([i \in Pos |-> IF i < k THEN base ELSE 0]),
                                         db.key_bits, db.key_len, g),
                       val |-> 1]>>
         /\ shl64 \in (IF db.key_bits >= 64 THEN {One, Zero} ELSE {One})
    /\ proc = "running"
    /\ idx_file = NoIndexFile
    /\ index = KrakenDBIndex_basic
    /\ index_ptr = NULL
    /\ NoCalls
    /\ NoQueries
    /\ NoThreads

\* comp_kmer = 0; FAST_COPY(&comp_kmer, ptr + pair_sz * mid, key_len);
\* comp_kmer &= (1ull << key_bits) - 1, for mid = 0
ReadCompKmer ==
    /\ call_op = "none"
    /\ call_op' = "comp_kmer"
    /\ call_ret' = CompKmer(db, pairs, shl64, 0)
    /\ UNCHANGED <<call_n, call_kmer, dbvars, qvars, thrvars>>

MaskNext == ReadCompKmer

SpecMask == MaskInit /\ [][MaskNext]_vars

\* C19: for every key width key_bits = 2k, 1 <= k <= 32, the key the search
\* compares is the low key_bits bits of the stored key_len bytes: every bit
\* at or above key_bits is clear, every bit below is kept
C19_MaskLowBits ==
    call_op = "comp_kmer" => call_ret = LowBits(pairs[1].key, db.k)

\* for key_bits = 64 the key compared is 0, the stored key is not
C19_MaskZero ==
    /\ call_op = "comp_kmer"
    /\ db.key_bits = 64
    /\ shl64 = One
    /\ call_ret = Zero
    /\ pairs[1].key # Zero

\* ------------------------------------------------------------------------
\* SpecConc: threads issuing stateful queries against one database, each
\* passing pointers to its own last_bin_key, min_pos and max_pos
\* ------------------------------------------------------------------------
\* the sets of canonical 3-mers stored: a sparse one and every canonical 3-mer
ConcKeySets ==
    { { canonical_representation(string_to_kmer(str), SmallK) : str \in strs } :
        strs \in {SparseStrings(SmallK), AllStrings(SmallK)} }

ConcInit ==
    /\ \E keys \in ConcKeySets :
         /\ file = Header(SmallK, Cardinality(keys))
         /\ db = KrakenDB(file)
         /\ \E nt \in 1..Min(SmallK, MaxNt) :
              /\ pairs = PairArray(SortedKeys(keys, 2 * SmallK, nt), db, 3)
              /\ idx_file = make_index(db, pairs, nt)
    /\ shl64 = One
    /\ proc = "running"
    /\ index = KrakenDBIndex(idx_file)
    /\ index_ptr = "index"
    /\ NoCalls
    /\ NoQueries
    /\ NoThreads

\* every thread passing the pointers of the first
StateOf_shared(t) == 1

\* the state whose pointers thread t passes to kmer_query
StateOf(t) == t

\* thread t calls kmer_query(kmer, &last_bin_key, &min_pos, &max_pos) and
\* runs it to the return of a hit or to the retry_on_failure test; alone is
\* what the same call gives the thread when it runs its queries alone
BeginQuery(t) ==
    /\ tq[t].pc = "idle"
    /\ \E str \in QueryStrings(db.k) :
         LET kmer == string_to_kmer(str)
             st == qstate[StateOf(t)]
         IN  \E w \in { IF st.min_pos <= st.max_pos THEN st ELSE BinWindow(db, index, kmer) },
                alone \in { kmer_query_state(db, index, pairs, shl64, kmer, tq[t].alone.st) } :
                \E found \in { HybridSearch(db, pairs, shl64, kmer, w.min_pos, w.max_pos) } :
                    /\ qstate' = [qstate EXCEPT ![StateOf(t)] = w]
                    /\ tq' = [tq EXCEPT ![t] =
                                [pc |-> IF found # NoPair THEN "idle" ELSE "retry",
                                 kmer |-> kmer, ret |-> found, alone |-> alone]]
    /\ UNCHANGED <<callvars, dbvars, qvars, mivars, kq>>

\* thread t from the retry_on_failure test to the return
RetryQuery(t) ==
    /\ tq[t].pc = "retry"
    /\ \E w \in { BinWindow(db, index, tq[t].kmer) } :
         IF w.last_bin_key = qstate[StateOf(t)].last_bin_key
         THEN /\ tq' = [tq EXCEPT ![t].pc = "idle", ![t].ret = NoPair]
              /\ UNCHANGED qstate
         ELSE /\ tq' = [tq EXCEPT ![t].pc = "idle",
                                  ![t].ret = HybridSearch(db, pairs, shl64, tq[t].kmer,
                                                          w.min_pos, w.max_pos)]
              /\ qstate' = [qstate EXCEPT ![StateOf(t)] = w]
    /\ UNCHANGED <<callvars, dbvars, qvars, mivars, kq>>

ConcNext ==
    \/ \E t \in Threads : BeginQuery(t)
    \/ \E t \in Threads : RetryQuery(t)

SpecConc == ConcInit /\ [][ConcNext]_vars

\* C13: when several threads issue stateful queries against one database,
\* each with its own (last_bin_key, min_pos, max_pos), every interleaving
\* gives each thread the result and the state it gets running its queries
\* alone; no step of a query changes the pair array, the index or a field
\* of the database, and a state is changed only by a step of its own thread
C13_ThreadsIndependent ==
    /\ [](\A t \in Threads :
            tq[t].pc = "idle" =>
                /\ tq[t].ret = tq[t].alone.ret
                /\ qstate[StateOf(t)] = tq[t].alone.st)
    /\ [][/\ dbvars' = dbvars
           /\ \A s \in Threads :
                 qstate'[s] # qstate[s] =>
                     \E t \in Threads : StateOf(t) = s /\ tq'[t] # tq[t]]_vars

\* two threads are inside kmer_query at once, past a miss in windows of
\* different bins, and another call has returned a hit from a cached window
C13_Witness ==
    /\ tq[1].pc = "retry" /\ tq[NThreads].pc = "retry"
    /\ qstate[StateOf(1)].min_pos <= qstate[StateOf(1)].max_pos
    /\ qstate[StateOf(1)].last_bin_key # qstate[StateOf(NThreads)].last_bin_key
    /\ tq[1].alone.ret = NoPair

\* ------------------------------------------------------------------------
\* SpecAt: KrakenDBIndex::at of a TESTING build, on the index of a database
\* ------------------------------------------------------------------------
\* index.at(idx)
CallAt ==
    /\ proc = "running"
    /\ call_op = "none"
    /\ \E idx \in 0..(4 ^ index.nt + AtSlack) :
         \E r \in at_TESTING(index, idx) :
            /\ call_n' = idx
            /\ call_ret' = FromInt(r.val)
            /\ proc' = IF r.errx = NULL THEN proc
                       ELSE IF r.errx = "SIGSEGV" THEN "crashed" ELSE "exited"
    /\ call_op' = "at"
    /\ UNCHANGED <<call_kmer, file, pairs, db, idx_file, index, index_ptr, shl64, qvars, thrvars>>

AtNext == CallAt

SpecAt == QueryInit /\ [][AtNext]_vars

\* C11: in a TESTING build at(i) fails with the out-of-range error for every
\* i > 4^nt and returns B[i] for every i <= 4^nt
C11_AtGuard ==
    call_op = "at" =>
        IF call_n > 4 ^ index.nt
        THEN proc = "exited"
        ELSE proc = "running" /\ call_ret = FromInt(idx_file.offsets[call_n])

\* at(4^nt + 1) has passed the guard and read past the offset array
C11_ReadPastEnd ==
    /\ call_op = "at"
    /\ call_n = 4 ^ index.nt + 1
    /\ proc # "exited"

\* ------------------------------------------------------------------------
\* SpecOpenIndex: the constructor KrakenDBIndex(char *ptr) over a mapped
\* index file
\* ------------------------------------------------------------------------
\* the first 7 bytes of the index files opened
IndexMagics == {KRAKEN_INDEX_STRING, KRAKEN_INDEX2_STRING, "KRAKIX3", "JFLISTD"}

\* the files make_index writes, and the same bytes under the other prefixes
OpenIndexInit ==
    /\ \E k \in DbKs, g \in {0, 3} :
         \E keys \in KeySets(k) :
            /\ file = Header(k, Cardinality(keys))
            /\ db = KrakenDB(file)
            /\ \E nt \in 1..Min(k, MaxNt) :
                 /\ pairs = PairArray(SortedKeys(keys, 2 * k, nt), db, g)
                 /\ \E m \in IndexMagics :
                      idx_file = [make_index(db, pairs, nt) EXCEPT !.magic = m]
    /\ proc = "running"
    /\ index = KrakenDBIndex_basic
    /\ index_ptr = NULL
    /\ shl64 = One
    /\ NoCalls
    /\ NoQueries
    /\ NoThreads

\* KrakenDBIndex(ptr): errx ends the process, otherwise the object is
\* constructed
OpenIndexFile ==
    /\ proc = "running"
    /\ call_op = "none"
    /\ call_op' = "KrakenDBIndex"
    /\ LET obj == KrakenDBIndex(idx_file)
       IN  IF obj.errx # NULL
           THEN proc' = "exited" /\ index' = index
           ELSE proc' = proc /\ index' = obj
    /\ UNCHANGED <<call_n, call_kmer, call_ret, file, pairs, db, idx_file,
                   index_ptr, shl64, qvars, thrvars>>

\* index.indexed_nt() of the object constructed
GetIndexedNt ==
    /\ proc = "running"
    /\ call_op = "KrakenDBIndex"
    /\ call_op' = "indexed_nt"
    /\ call_n' = index.nt
    /\ UNCHANGED <<call_kmer, call_ret, dbvars, qvars, thrvars>>

OpenIndexNext == OpenIndexFile \/ GetIndexedNt

SpecOpenIndex == OpenIndexInit /\ [][OpenIndexNext]_vars

\* C14: opening an index file starting with "KRAKIDX" yields version 1, one
\* starting with "KRAKIX2" version 2, with indexed_nt() the byte after the
\* prefix and the offsets those after it, so that a file written by
\* make_index reopens as version 2 with the same nt and offsets; opening a
\* file with any other prefix fails with an error returned to the caller
C14_OpenIndexResult ==
    call_op \in {"KrakenDBIndex", "indexed_nt"} =>
        IF idx_file.magic \in {"KRAKIDX", "KRAKIX2"}
        THEN /\ proc = "running"
             /\ index.idx_type = (IF idx_file.magic = "KRAKIDX" THEN 1 ELSE 2)
             /\ index.nt = idx_file.nt
             /\ index.array = idx_file.offsets
             /\ idx_file.magic = "KRAKIX2" =>
                    idx_file = make_index(db, pairs, index.nt)
             /\ call_op = "indexed_nt" => call_n = idx_file.nt
        ELSE proc = "running" /\ index = KrakenDBIndex_basic

\* the constructor has ended the process on an index file with a prefix
\* that is neither "KRAKIDX" nor "KRAKIX2"
C14_Exited ==
    /\ call_op = "KrakenDBIndex"
    /\ idx_file.magic = "KRAKIX3"
    /\ proc = "exited"

\* ------------------------------------------------------------------------
\* SpecOpen: the constructor KrakenDB(char *ptr) over a mapped file
\* ------------------------------------------------------------------------
\* the first 8 bytes of the files opened
Magics == {DATABASE_FILE_TYPE, "JFLISTDX", KRAKEN_INDEX2_STRING}

\* the key_bits fields of the files opened: k-mers of 1 to 32 bases, odd
\* widths, and widths beyond a 64-bit key
KeyBitsValues == {2, 6, 7, 30, 62, 63, 64, 510, 512}

ValLens == {0, 4, 8}

OpenInit ==
    /\ file \in [magic : Magics, key_bits : KeyBitsValues, val_len : ValLens,
                 key_ct : 0..MaxKeyCt]
    /\ proc = "running"
    /\ pairs = <<>>
    /\ db = KrakenDB_basic
    /\ idx_file = NoIndexFile /\ index = KrakenDBIndex_basic
    /\ index_ptr = NULL /\ shl64 = One
    /\ NoCalls
    /\ NoQueries
    /\ NoThreads

\* KrakenDB(ptr): errx ends the process, otherwise the object is constructed
OpenDatabase ==
    /\ proc = "running"
    /\ call_op = "none"
    /\ call_op' = "KrakenDB"
    /\ LET obj == KrakenDB(file)
       IN  IF obj.errx # NULL
           THEN proc' = "exited" /\ db' = db
           ELSE proc' = proc /\ db' = obj
    /\ UNCHANGED <<call_n, call_kmer, call_ret, file, pairs, idx_file, index,
                   index_ptr, shl64, qvars, thrvars>>

\* the accessors of the object constructed
GetAccessors ==
    /\ proc = "running"
    /\ call_op = "KrakenDB"
    /\ call_op' = "get_k"
    /\ call_n' = db.k
    /\ UNCHANGED <<call_kmer, call_ret, dbvars, qvars, thrvars>>

OpenNext == OpenDatabase \/ GetAccessors

SpecOpen == OpenInit /\ [][OpenNext]_vars

\* ceil(key_bits / 8)
CeilDiv8(key_bits) == (key_bits + 7) \div 8

\* C10: opening a file whose magic is not "JFLISTDN" or whose val_len is not
\* 4 returns an error to the caller: no database is produced and the process
\* is not terminated; opening any other file succeeds with k = key_bits / 2
\* and key_len = ceil(key_bits / 8)
C10_OpenResult ==
    call_op = "KrakenDB" =>
        IF file.magic # "JFLISTDN" \/ file.val_len # 4
        THEN proc = "running" /\ db = KrakenDB_basic
        ELSE /\ proc = "running"
             /\ db.k = file.key_bits \div 2
             /\ db.key_len = CeilDiv8(file.key_bits)

\* the constructor has ended the process on a file with a wrong magic
C10_Exited ==
    /\ call_op = "KrakenDB"
    /\ file.magic # "JFLISTDN"
    /\ proc = "exited"

====
